---- MODULE Spec2Model ----
(***************************************************************************)
(* Model of randterrainpy/terrain.py (RandTerrainPy, Python 2.7):          *)
(* class Terrain (a width x length grid of heights with toroidal           *)
(* addressing, bounded arithmetic and thermal erosion) and class           *)
(* VoronoiTerrain (a Terrain partitioned into nearest-seed regions).       *)
(*                                                                         *)
(* Heights and every other real number are integers counted in units of    *)
(* 0.0001; a value that arithmetic makes fractional is kept exact, as a    *)
(* fraction n/d or as h + c * sqrt(q) / (sqrt(q) + k), until round() is    *)
(* applied to it.  The binary representation error of Python floats is     *)
(* not modelled.                                                           *)
(***************************************************************************)
EXTENDS Integers, Sequences, FiniteSets, TLC

\* ------------------------------------------------------------------ bounds

\* Dimensions of the terrain `self`.
Width == 3
Length == 2
\* Number of calls made on the objects in one behaviour.
MaxSteps == 2
\* How far outside the grid the coordinates passed to get/set reach.
CoordSlack == 1
\* Largest iteration count passed to thermal_erode / lloyd_relax.
MaxIters == 2

\* ------------------------------------------------------- program constants

\* The height 1 (the upper bound of __setitem__) and the 0.001 that
\* round(value, 3) rounds to, in model units of 0.0001.
Unit == 10000
Milli == 10

\* ----------------------------------------------------------------- numbers

Abs(n) == IF n < 0 THEN -n ELSE n

\* floor(sqrt(m)) and ceil(sqrt(m)) for m >= 0.
ISqrt(m) == CHOOSE j \in 0..m : j * j <= m /\ m < (j + 1) * (j + 1)
ISqrtCeil(m) == IF ISqrt(m) * ISqrt(m) = m THEN ISqrt(m) ELSE ISqrt(m) + 1
IsSquare(m) == ISqrt(m) * ISqrt(m) = m

\* sqrt(q) * p >= r, for integers q > 0, p, r.
SurdGeq(q, p, r) ==
    IF p >= 0
    THEN (r <= 0 \/ q * p * p >= r * r)
    ELSE (r < 0 /\ q * p * p <= r * r)

\* A real number n/d + c * sqrt(q) / (sqrt(q) + k) with d > 0, q > 0, k > 0;
\* c = 0 or q not a square.  Rat(n, d) is the fraction n/d, Surd(h, c, q, k)
\* the number h + c * sqrt(q) / (sqrt(q) + k).
Rat(n, d) ==
    IF d < 0 THEN [n |-> -n, d |-> -d, c |-> 0, q |-> 1, k |-> 1]
    ELSE [n |-> n, d |-> d, c |-> 0, q |-> 1, k |-> 1]

Surd(h, c, q, k) ==
    IF IsSquare(q)
    THEN Rat(h * (ISqrt(q) + k) + c * ISqrt(q), ISqrt(q) + k)
    ELSE [n |-> h, d |-> 1, c |-> c, q |-> q, k |-> k]

\* The integer nearest to num/den (den > 0), a tie going away from zero:
\* Python 2.7's round().
RoundHalfAway(num, den) ==
    LET q == (2 * Abs(num) + den) \div (2 * den)
    IN  IF num < 0 THEN -q ELSE q

\* The largest j in lo..hi with sqrt(q) * (2c - qj) >= qj * k, where
\* qj = 2j - 1 - 2h: the integer nearest to h + c * sqrt(q) / (sqrt(q) + k),
\* which is never a tie as sqrt(q) is irrational.  The test holds at lo.
RECURSIVE NearestToSurd(_, _, _, _, _, _)
NearestToSurd(lo, hi, h, c, q, k) ==
    IF lo >= hi THEN lo
    ELSE LET mid == (lo + hi + 1) \div 2
             qj == 2 * mid - 1 - 2 * h
         IN  IF SurdGeq(q, 2 * c - qj, qj * k)
             THEN NearestToSurd(mid, hi, h, c, q, k)
             ELSE NearestToSurd(lo, mid - 1, h, c, q, k)

\* round(value, 2) of a fraction, for comparison.
Round2(v) == (10 * Milli) * RoundHalfAway(v.n, v.d * 10 * Milli)

\* round(value, 3): the multiple of 0.001 nearest to the number v.  (With a
\* surd part, v.n and v.c are multiples of 0.001.)
Round3(v) ==
    IF v.c = 0
    THEN Milli * RoundHalfAway(v.n, v.d * Milli)
    ELSE Milli * NearestToSurd((v.n \div Milli) - Abs(v.c \div Milli) - 1,
                               (v.n \div Milli) + Abs(v.c \div Milli) + 1,
                               v.n \div Milli, v.c \div Milli, v.q, v.k)

\* ----------------------------------------------------------------- Terrain

\* Terrain.__init__: a grid of zeros, a list of `length` rows of `width`.
NewTerrain(w, l) ==
    [width |-> w, length |-> l,
     height_map |-> [j \in 1..l |-> [i \in 1..w |-> 0]]]

\* A __getitem__ that clamps indices to the grid, for comparison with the
\* code's wrapping one.
GetItemClamped(t, x, y) ==
    LET cx == IF x < 0 THEN 0 ELSE IF x >= t.width THEN t.width - 1 ELSE x
        cy == IF y < 0 THEN 0 ELSE IF y >= t.length THEN t.length - 1 ELSE y
    IN  t.height_map[cy + 1][cx + 1]

\* Terrain.__getitem__: indices are taken modulo length and width.
GetItem(t, x, y) == t.height_map[(y % t.length) + 1][(x % t.width) + 1]

\* A __setitem__ without the range test, for comparison.
SetItemUnchecked(t, x, y, v) ==
    [raised |-> "none",
     t |-> [t EXCEPT !.height_map[(y % t.length) + 1][(x % t.width) + 1] = Round3(v)]]

\* Terrain.__setitem__: raises when the rounded value is outside [0, 1],
\* otherwise stores the rounded value at the wrapped cell.
SetItem(t, x, y, v) ==
    IF ~(0 <= Round3(v) /\ Round3(v) <= Unit)
    THEN [raised |-> "HeightOutOfBoundsError", t |-> t]
    ELSE [raised |-> "none",
          t |-> [t EXCEPT !.height_map[(y % t.length) + 1][(x % t.width) + 1] = Round3(v)]]

\* The cells in the order of `for x in range(width): for y in range(length)`.
CellOrder(w, l) == [k \in 1..(w * l) |-> <<(k - 1) \div l, (k - 1) % l>>]

\* Writes vals[k] to cell cells[k] for k = from.., stopping at the first
\* write that raises.
RECURSIVE SetAll(_, _, _, _)
SetAll(t, cells, vals, from) ==
    IF from > Len(cells) THEN [raised |-> "none", t |-> t]
    ELSE LET r == SetItem(t, cells[from][1], cells[from][2], vals[from])
         IN  IF r.raised # "none" THEN r
             ELSE SetAll(r.t, cells, vals, from + 1)

\* A cell sum that is not capped, for comparison.
AddCellRaw(a, b) == Rat(a + b, 1)

\* Terrain.__add__: sums above 1 are stored as 1.
AddCell(a, b) == IF a + b > Unit THEN Rat(Unit, 1) ELSE Rat(a + b, 1)

Add(s, o) ==
    IF o.length # s.length \/ o.width # s.width
    THEN [raised |-> "InvalidDimensionsError", t |-> s]
    ELSE LET cells == CellOrder(s.width, s.length)
             vals == [k \in 1..Len(cells) |->
                        AddCell(GetItem(s, cells[k][1], cells[k][2]),
                                GetItem(o, cells[k][1], cells[k][2]))]
         IN  SetAll(NewTerrain(s.width, s.length), cells, vals, 1)

\* Terrain.__sub__: differences below 0 are stored as 0.
SubCell(a, b) == IF a - b < 0 THEN Rat(0, 1) ELSE Rat(a - b, 1)

Sub(s, o) ==
    IF o.length # s.length \/ o.width # s.width
    THEN [raised |-> "InvalidDimensionsError", t |-> s]
    ELSE LET cells == CellOrder(s.width, s.length)
             vals == [k \in 1..Len(cells) |->
                        SubCell(GetItem(s, cells[k][1], cells[k][2]),
                                GetItem(o, cells[k][1], cells[k][2]))]
         IN  SetAll(NewTerrain(s.width, s.length), cells, vals, 1)

\* Terrain.__mul__ by the scalar f (a fraction): raises when a product is
\* outside [0, 1] before rounding.
Mul(s, f) ==
    LET cells == CellOrder(s.width, s.length)
        vals == [k \in 1..Len(cells) |->
                   Rat(GetItem(s, cells[k][1], cells[k][2]) * f.n, f.d)]
    IN  IF \E k \in 1..Len(cells) :
              ~(0 <= vals[k].n /\ vals[k].n <= Unit * vals[k].d)
        THEN [raised |-> "HeightOutOfBoundsError", t |-> s]
        ELSE SetAll(NewTerrain(s.width, s.length), cells, vals, 1)

\* ------------------------------------------------------------ neighbours

\* The filter of get_vonneumann_neighbours and get_moore_neighbours.
InGrid(t, p) == 0 <= p[1] /\ p[1] < t.width /\ 0 <= p[2] /\ p[2] < t.length

\* Terrain.get_vonneumann_neighbours: upper, left, right and lower
\* neighbour, those outside the grid filtered out.
VonNeumannNeighbours(t, x, y) ==
    LET neighbours == << <<x, y + 1>>, <<x - 1, y>>, <<x + 1, y>>, <<x, y - 1>> >>
        keep(p) == InGrid(t, p)
    IN  SelectSeq(neighbours, keep)

\* --------------------------------------------------------- thermal_erode

RECURSIVE SumSeq(_, _)
SumSeq(s, from) == IF from > Len(s) THEN 0 ELSE s[from] + SumSeq(s, from + 1)

RECURSIVE MaxSeq(_, _, _)
MaxSeq(s, from, best) ==
    IF from > Len(s) THEN best
    ELSE MaxSeq(s, from + 1, IF s[from] > best THEN s[from] ELSE best)

\* The first loop over the neighbours of (x, y): the differences that
\* exceed talus, in neighbour order.
QualifyingDiffs(t, x, y, talus) ==
    LET nbrs == VonNeumannNeighbours(t, x, y)
        diffs == [k \in 1..Len(nbrs) |->
                    GetItem(t, x, y) - GetItem(t, nbrs[k][1], nbrs[k][2])]
        keep(d) == d > talus
    IN  SelectSeq(diffs, keep)

DiffTotal(t, x, y, talus) == SumSeq(QualifyingDiffs(t, x, y, talus), 1)

DiffMax(t, x, y, talus) == MaxSeq(QualifyingDiffs(t, x, y, talus), 1, 0)

\* A second loop that also transfers at a difference equal to talus, for
\* comparison.
RECURSIVE TransferFromAtTalus(_, _, _, _, _, _, _)
TransferFromAtTalus(e, x, y, k, diff_total, diff_max, talus) ==
    LET nbrs == VonNeumannNeighbours(e.t, x, y) IN
    IF k > Len(nbrs) THEN e
    ELSE
      LET nx == nbrs[k][1]
          ny == nbrs[k][2]
          difference == GetItem(e.t, x, y) - GetItem(e.t, nx, ny)
          seen == [e EXCEPT !.visited = @ \cup {<<x, y, nx, ny>>}]
      IN
      IF ~(difference >= talus)
      THEN TransferFromAtTalus(seen, x, y, k + 1, diff_total, diff_max, talus)
      ELSE IF diff_total = 0
      THEN [seen EXCEPT !.raised = "ZeroDivisionError"]
      ELSE
        LET num == (diff_max - talus) * difference
            out == SetItem(e.t, x, y,
                           Rat(GetItem(e.t, x, y) * diff_total - num, diff_total))
        IN
        IF out.raised # "none" THEN [seen EXCEPT !.raised = out.raised]
        ELSE
          LET in == SetItem(out.t, nx, ny,
                            Rat(GetItem(out.t, nx, ny) * diff_total + num, diff_total))
          IN
          IF in.raised # "none"
          THEN [seen EXCEPT !.raised = in.raised, !.t = out.t]
          ELSE TransferFromAtTalus([seen EXCEPT !.t = in.t, !.transfers = @ + 1,
                                         !.received = @ \cup {<<nx, ny>>}],
                            x, y, k + 1, diff_total, diff_max, talus)

\* The second loop over the neighbours of (x, y), from neighbour k on.  e is
\* the erosion so far: [raised, t, visited, transfers, received], where
\* visited holds the (cell, neighbour) pairs compared, transfers counts the
\* transfers made and received holds the cells given height; diff_total and
\* diff_max are those of the first loop.  The difference is read again from
\* the grid as it is now; the height leaves (x, y) and then enters the
\* neighbour, each through __setitem__.
RECURSIVE TransferFrom(_, _, _, _, _, _, _)
TransferFrom(e, x, y, k, diff_total, diff_max, talus) ==
    LET nbrs == VonNeumannNeighbours(e.t, x, y) IN
    IF k > Len(nbrs) THEN e
    ELSE
      LET nx == nbrs[k][1]
          ny == nbrs[k][2]
          difference == GetItem(e.t, x, y) - GetItem(e.t, nx, ny)
          seen == [e EXCEPT !.visited = @ \cup {<<x, y, nx, ny>>}]
      IN
      IF ~(difference > talus)
      THEN TransferFrom(seen, x, y, k + 1, diff_total, diff_max, talus)
      ELSE IF diff_total = 0
      THEN [seen EXCEPT !.raised = "ZeroDivisionError"]
      ELSE
        LET num == (diff_max - talus) * difference
            out == SetItem(e.t, x, y,
                           Rat(GetItem(e.t, x, y) * diff_total - num, diff_total))
        IN
        IF out.raised # "none" THEN [seen EXCEPT !.raised = out.raised]
        ELSE
          LET in == SetItem(out.t, nx, ny,
                            Rat(GetItem(out.t, nx, ny) * diff_total + num, diff_total))
          IN
          IF in.raised # "none"
          THEN [seen EXCEPT !.raised = in.raised, !.t = out.t]
          ELSE TransferFrom([seen EXCEPT !.t = in.t, !.transfers = @ + 1,
                                         !.received = @ \cup {<<nx, ny>>}],
                            x, y, k + 1, diff_total, diff_max, talus)

\* One pass over the cells, from cell k of the cell order on.
RECURSIVE ErodePass(_, _, _)
ErodePass(e, k, talus) ==
    LET cells == CellOrder(e.t.width, e.t.length) IN
    IF k > Len(cells) \/ e.raised # "none" THEN e
    ELSE LET x == cells[k][1]
             y == cells[k][2]
         IN  ErodePass(TransferFrom(e, x, y, 1,
                                     DiffTotal(e.t, x, y, talus),
                                     DiffMax(e.t, x, y, talus), talus),
                       k + 1, talus)

\* Terrain.thermal_erode: `iterations` passes.
RECURSIVE ErodeIters(_, _, _)
ErodeIters(e, iterations, talus) ==
    IF iterations <= 0 \/ e.raised # "none" THEN e
    ELSE ErodeIters(ErodePass(e, 1, talus), iterations - 1, talus)

ThermalErode(t, iterations, talus) ==
    ErodeIters([raised |-> "none", t |-> t, visited |-> {}, transfers |-> 0,
                received |-> {}],
               iterations, talus)


\* -------------------------------------------------------- VoronoiTerrain

\* list.index: the 0-based position of the first element equal to v, or -1
\* where Python raises ValueError.
IndexOf(seq, v) ==
    IF \E k \in 1..Len(seq) : seq[k] = v
    THEN (CHOOSE k \in 1..Len(seq) :
             seq[k] = v /\ \A j \in 1..(k - 1) : seq[j] # v) - 1
    ELSE -1

\* The seed loop of _init_regions for the cell (x, y), from seed k on: c is
\* [min_dist, closest_pnt_index].
RECURSIVE ClosestFrom(_, _, _, _, _)
ClosestFrom(pts, k, x, y, c) ==
    IF k > Len(pts) THEN c
    ELSE LET dist_squared == (pts[k][1] - x) * (pts[k][1] - x)
                               + (pts[k][2] - y) * (pts[k][2] - y)
         IN  ClosestFrom(pts, k + 1, x, y,
                 IF dist_squared < c.min_dist
                 THEN [min_dist |-> dist_squared,
                       closest_pnt_index |-> IndexOf(pts, pts[k])]
                 ELSE c)

ClosestPntIndex(pts, x, y, w, l) ==
    ClosestFrom(pts, 1, x, y,
                [min_dist |-> w * w + l * l, closest_pnt_index |-> 0]).closest_pnt_index

\* A cell loop that puts every cell in the first member list, for
\* comparison.
AppendMemberToFirst(regions, closest, x, y) ==
    IF Len(regions) > 0
    THEN [regions EXCEPT ![1] = Append(@, <<x, y>>)]
    ELSE regions

\* The last two lines of the cell loop of _init_regions: the cell joins the
\* member list of its closest seed, if there are seeds at all.
AppendMember(regions, closest, x, y) ==
    IF Len(regions) > 0
    THEN [regions EXCEPT ![closest + 1] = Append(@, <<x, y>>)]
    ELSE regions

\* The cell loop of _init_regions, from cell k of the cell order on: v is
\* [region_map, point_regions].
RECURSIVE InitRegionsFrom(_, _, _, _, _)
InitRegionsFrom(v, pts, k, w, l) ==
    LET cells == CellOrder(w, l) IN
    IF k > Len(cells) THEN v
    ELSE LET x == cells[k][1]
             y == cells[k][2]
             closest == ClosestPntIndex(pts, x, y, w, l)
         IN  InitRegionsFrom(
                 [region_map |-> [v.region_map EXCEPT ![y + 1][x + 1] = closest],
                  point_regions |-> AppendMember(v.point_regions, closest, x, y)],
                 pts, k + 1, w, l)

\* VoronoiTerrain._init_regions: the member lists and the feature points
\* are reset, then every cell is assigned to its closest seed.  old_map is
\* the region map before the call (its cells are all overwritten).
InitRegions(pts, old_map, w, l) ==
    LET v == InitRegionsFrom([region_map |-> old_map,
                              point_regions |-> [i \in 1..Len(pts) |-> <<>>]],
                             pts, 1, w, l)
    IN  [region_map |-> v.region_map,
         point_regions |-> v.point_regions,
         feature_points |-> [i \in 1..Len(pts) |-> <<>>]]

\* VoronoiTerrain.get_closest_point.
GetClosestPoint(rmap, x, y) == rmap[y + 1][x + 1]

\* The centroid loop of lloyd_relax, from seed k on: r is [raised, points].
\* Python 2 divides the integer sums with floor division.
RECURSIVE CentroidsFrom(_, _, _)
CentroidsFrom(r, regions, k) ==
    IF k > Len(regions) THEN r
    ELSE IF Len(regions[k]) = 0
    THEN [r EXCEPT !.raised = "ZeroDivisionError"]
    ELSE LET xs == [i \in 1..Len(regions[k]) |-> regions[k][i][1]]
             ys == [i \in 1..Len(regions[k]) |-> regions[k][i][2]]
             centroid_x == SumSeq(xs, 1) \div Len(regions[k])
             centroid_y == SumSeq(ys, 1) \div Len(regions[k])
         IN  CentroidsFrom([r EXCEPT !.points[k] = <<centroid_x, centroid_y>>],
                           regions, k + 1)

\* VoronoiTerrain.lloyd_relax: v is [raised, points, region_map,
\* point_regions, feature_points].
RECURSIVE LloydRelax(_, _, _, _)
LloydRelax(v, iters, w, l) ==
    IF iters <= 0 THEN v
    ELSE LET r == CentroidsFrom([raised |-> "none", points |-> v.points],
                                v.point_regions, 1)
         IN  IF r.raised # "none"
             THEN [v EXCEPT !.raised = r.raised, !.points = r.points]
             ELSE LET n == InitRegions(r.points, v.region_map, w, l)
                  IN  LloydRelax([raised |-> "none", points |-> r.points,
                                  region_map |-> n.region_map,
                                  point_regions |-> n.point_regions,
                                  feature_points |-> n.feature_points],
                                 iters - 1, w, l)

\* VoronoiTerrain.get_region: [raised, region].
GetRegion(pts, regions, point_x, point_y) ==
    IF IndexOf(pts, <<point_x, point_y>>) < 0
    THEN [raised |-> "ValueError", region |-> <<>>]
    ELSE [raised |-> "none",
          region |-> regions[IndexOf(pts, <<point_x, point_y>>) + 1]]

\* Python values of different types never compare equal: an int (a region
\* index) against a tuple (a seed coordinate).
PyInt(i) == [type |-> "int", val |-> <<i>>]
PyTuple(x, y) == [type |-> "tuple", val |-> <<x, y>>]
PyEq(a, b) == a.type = b.type /\ a.val = b.val

\* The 8 Moore neighbours of (x, y) as get_region_edge and
\* get_region_corners list them, wrapped into the grid.
BoundedNeighbours(x, y, w, l) ==
    LET neighbours == << <<x - 1, y - 1>>, <<x - 1, y>>, <<x - 1, y + 1>>,
                         <<x, y - 1>>, <<x, y + 1>>,
                         <<x + 1, y - 1>>, <<x + 1, y>>, <<x + 1, y + 1>> >>
    IN  [k \in 1..8 |-> <<neighbours[k][1] % w, neighbours[k][2] % l>>]

\* The test of get_region_edge on one member cell: the region index of each
\* neighbour is compared with the tuple (region_x, region_y).
AllNeighboursInRegion(pts, rmap, x, y, region_x, region_y, w, l) ==
    \A k \in 1..8 :
        LET n == BoundedNeighbours(x, y, w, l)[k]
        IN  PyEq(PyInt(GetClosestPoint(rmap, n[1], n[2])),
                 PyTuple(region_x, region_y))

\* VoronoiTerrain.get_region_edge: [raised, cells].
GetRegionEdge(pts, regions, rmap, region_x, region_y, w, l) ==
    LET g == GetRegion(pts, regions, region_x, region_y)
        onEdge(c) == ~AllNeighboursInRegion(pts, rmap, c[1], c[2],
                                            region_x, region_y, w, l)
    IN  IF g.raised # "none" THEN [raised |-> g.raised, cells |-> <<>>]
        ELSE [raised |-> "none", cells |-> SelectSeq(g.region, onEdge)]

\* The regions get_region_corners collects for one cell: those of its 8
\* wrapped neighbours.
AdjacentRegions(rmap, x, y, w, l) ==
    {GetClosestPoint(rmap, BoundedNeighbours(x, y, w, l)[k][1],
                     BoundedNeighbours(x, y, w, l)[k][2]) : k \in 1..8}

\* VoronoiTerrain.get_region_corners: [raised, cells].
GetRegionCorners(pts, regions, rmap, region_x, region_y, w, l) ==
    LET e == GetRegionEdge(pts, regions, rmap, region_x, region_y, w, l)
        isCorner(c) == Cardinality(AdjacentRegions(rmap, c[1], c[2], w, l)) >= 3
    IN  IF e.raised # "none" THEN e
        ELSE [raised |-> "none", cells |-> SelectSeq(e.cells, isCorner)]

\* Membership of a value in a list (Python's `in`).
InSeq(v, seq) == \E k \in 1..Len(seq) : seq[k] = v

\* An add_feature_point that appends to the first seed's list, and one
\* that does not test membership, for comparison.
AddFeaturePointToFirst(pts, regions, feats, region_x, region_y, x, y) ==
    LET g == GetRegion(pts, regions, region_x, region_y) IN
    IF g.raised # "none" THEN [raised |-> g.raised, feature_points |-> feats]
    ELSE IF ~InSeq(<<x, y>>, g.region)
    THEN [raised |-> "OutOfRegionError", feature_points |-> feats]
    ELSE [raised |-> "none",
          feature_points |-> [feats EXCEPT ![1] = Append(@, <<x, y>>)]]

AddFeaturePointAnywhere(pts, regions, feats, region_x, region_y, x, y) ==
    LET g == GetRegion(pts, regions, region_x, region_y) IN
    IF g.raised # "none" THEN [raised |-> g.raised, feature_points |-> feats]
    ELSE [raised |-> "none",
          feature_points |->
              [feats EXCEPT ![IndexOf(pts, <<region_x, region_y>>) + 1] =
                                Append(@, <<x, y>>)]]

\* VoronoiTerrain.add_feature_point: [raised, feature_points].
AddFeaturePoint(pts, regions, feats, region_x, region_y, x, y) ==
    LET g == GetRegion(pts, regions, region_x, region_y) IN
    IF g.raised # "none" THEN [raised |-> g.raised, feature_points |-> feats]
    ELSE IF ~InSeq(<<x, y>>, g.region)
    THEN [raised |-> "OutOfRegionError", feature_points |-> feats]
    ELSE [raised |-> "none",
          feature_points |->
              [feats EXCEPT ![IndexOf(pts, <<region_x, region_y>>) + 1] =
                                Append(@, <<x, y>>)]]

\* VoronoiTerrain.set_region_height: [raised, t].
SetRegionHeight(t, pts, regions, point_x, point_y, height) ==
    LET g == GetRegion(pts, regions, point_x, point_y) IN
    IF g.raised # "none" THEN [raised |-> g.raised, t |-> t]
    ELSE SetAll(t, g.region, [k \in 1..Len(g.region) |-> Rat(height, 1)], 1)


\* ---------------------------------------------- add_feature_point_factors

\* VoronoiTerrain.get_feature_points: [raised, feats].
GetFeaturePoints(pts, feats, x, y) ==
    IF IndexOf(pts, <<x, y>>) < 0
    THEN [raised |-> "ValueError", feats |-> <<>>]
    ELSE [raised |-> "none", feats |-> feats[IndexOf(pts, <<x, y>>) + 1]]

\* sorted(feat_points, key=squared distance to (x, y)): a stable sort.
RECURSIVE InsertByDistance(_, _, _, _)
InsertByDistance(sorted, p, x, y) ==
    LET key(f) == (x - f[1]) * (x - f[1]) + (y - f[2]) * (y - f[2]) IN
    IF sorted = <<>> THEN <<p>>
    ELSE IF key(sorted[Len(sorted)]) <= key(p) THEN Append(sorted, p)
    ELSE Append(InsertByDistance(SubSeq(sorted, 1, Len(sorted) - 1), p, x, y),
                sorted[Len(sorted)])

RECURSIVE SortedFrom(_, _, _, _, _)
SortedFrom(sorted, feats, k, x, y) ==
    IF k > Len(feats) THEN sorted
    ELSE SortedFrom(InsertByDistance(sorted, feats[k], x, y), feats, k + 1, x, y)

SortedPnts(feats, x, y) == SortedFrom(<<>>, feats, 1, x, y)

\* floor(a / sqrt(n)) for an integer a and n > 0.
FloorDivSqrt(a, n) ==
    IF a >= 0 THEN ISqrt((a * a) \div n)
    ELSE -ISqrtCeil((a * a + n - 1) \div n)

\* The cell holding (temp_x, temp_y) after k steps of length 1 from (x, y)
\* away from the feature point (feat_x, feat_y): int() of each coordinate,
\* which is its floor inside the grid; the position is inside the grid iff
\* this cell is.
MarchCell(x, y, feat_x, feat_y, k) ==
    LET n == (x - feat_x) * (x - feat_x) + (y - feat_y) * (y - feat_y)
    IN  <<x + FloorDivSqrt(k * (x - feat_x), n), y + FloorDivSqrt(k * (y - feat_y), n)>>

\* The while loop of add_feature_point_factors: the number of steps taken
\* from (x, y) until the position is in another seed's region or outside
\* the grid.  The position after k steps is inside the grid.
RECURSIVE MarchSteps(_, _, _, _, _, _, _, _, _, _, _)
MarchSteps(pts, rmap, x, y, feat_x, feat_y, region_x, region_y, k, w, l) ==
    LET at == MarchCell(x, y, feat_x, feat_y, k)
        next == MarchCell(x, y, feat_x, feat_y, k + 1)
    IN  IF pts[GetClosestPoint(rmap, at[1], at[2]) + 1] # <<region_x, region_y>>
        THEN k
        ELSE IF ~(0 <= next[1] /\ next[1] < w /\ 0 <= next[2] /\ next[2] < l)
        THEN k + 1
        ELSE MarchSteps(pts, rmap, x, y, feat_x, feat_y, region_x, region_y,
                        k + 1, w, l)

\* The new height of (x, y) for one feature point and coefficient: the old
\* height plus coeff * sqrt(dist_to_point_squared / dist_to_edge_squared).
\* After k steps (temp_x + x_diff, temp_y + y_diff) is k + 1 unit steps
\* past (x, y) on the ray from the feature point, so the distance to the
\* edge is sqrt(dist_to_point_squared) + k + 1.
FactorValue(t, pts, rmap, x, y, feat_x, feat_y, region_x, region_y, coeff) ==
    Surd(GetItem(t, x, y), coeff,
         (x - feat_x) * (x - feat_x) + (y - feat_y) * (y - feat_y),
         MarchSteps(pts, rmap, x, y, feat_x, feat_y, region_x, region_y, 0,
                    t.width, t.length) + 1)

\* The loop over zip(sorted_pnts, coeffs) for the cell (x, y), from pair k
\* on: r is [raised, t].
RECURSIVE FactorPairsFrom(_, _, _, _, _, _, _, _, _, _)
FactorPairsFrom(r, pts, rmap, x, y, sorted, coeffs, k, region_x, region_y) ==
    IF k > Len(sorted) \/ k > Len(coeffs) \/ r.raised # "none" THEN r
    ELSE IF x # sorted[k][1] \/ y # sorted[k][2]
    THEN FactorPairsFrom(
             SetItem(r.t, x, y,
                     FactorValue(r.t, pts, rmap, x, y, sorted[k][1], sorted[k][2],
                                 region_x, region_y, coeffs[k])),
             pts, rmap, x, y, sorted, coeffs, k + 1, region_x, region_y)
    ELSE FactorPairsFrom(r, pts, rmap, x, y, sorted, coeffs, k + 1,
                         region_x, region_y)

\* The loop over the cells of the region, from cell k on.
RECURSIVE FactorCellsFrom(_, _, _, _, _, _, _, _, _)
FactorCellsFrom(r, pts, rmap, region, feats, coeffs, k, region_x, region_y) ==
    IF k > Len(region) \/ r.raised # "none" THEN r
    ELSE FactorCellsFrom(
             FactorPairsFrom(r, pts, rmap, region[k][1], region[k][2],
                             SortedPnts(feats, region[k][1], region[k][2]),
                             coeffs, 1, region_x, region_y),
             pts, rmap, region, feats, coeffs, k + 1, region_x, region_y)

\* VoronoiTerrain.add_feature_point_factors: [raised, t].
AddFeaturePointFactors(t, pts, regions, rmap, feats, region_x, region_y, coeffs) ==
    LET f == GetFeaturePoints(pts, feats, region_x, region_y) IN
    IF f.raised # "none" THEN [raised |-> f.raised, t |-> t]
    ELSE IF Len(coeffs) # Len(f.feats)
    THEN [raised |-> "InvalidCoefficientCountError", t |-> t]
    ELSE FactorCellsFrom([raised |-> "none", t |-> t], pts, rmap,
                         GetRegion(pts, regions, region_x, region_y).region,
                         f.feats, coeffs, 1, region_x, region_y)

\* ------------------------------------------------------- save and load

\* The file system as save_terrain and load_terrain see it: "dir/" is the
\* one directory that exists, and it has an entry for each <<fname,
\* extension>>: nothing, a file holding lines of tokens, or a directory.
FileNames == {"a", "sub"}
Extensions == {".terr", ".vterr"}
NoEntry == [kind |-> "none", lines |-> <<>>]
DirEntry == [kind |-> "dir", lines |-> <<>>]

\* "dir/" holds nothing named a.terr or a.vterr, and the directories
\* sub.terr and sub.vterr.
InitialFiles ==
    [e \in FileNames \X Extensions |-> IF e[1] = "sub" THEN DirEntry ELSE NoEntry]

\* os.path.isdir(path)
IsDir(path) == path = "dir/"

\* os.path.isdir(path + fname + extension)
IsDirEntry(fs, path, fname, extension) ==
    IsDir(path) /\ fs[<<fname, extension>>].kind = "dir"

\* round(x, 4) of a stored height, in units of 0.0001.
Round4(h) == RoundHalfAway(h, 1)

\* The height lines save_terrain writes: one line per row of _height_map,
\* each height as str(round(x, 4)).
HeightLines(t) ==
    [j \in 1..t.length |-> [i \in 1..t.width |-> Round4(t.height_map[j][i])]]

\* The coordinates of a list of feature points, as written on a seed's line.
RECURSIVE FlattenPoints(_, _)
FlattenPoints(feats, k) ==
    IF k > Len(feats) THEN <<>>
    ELSE <<feats[k][1], feats[k][2]>> \o FlattenPoints(feats, k + 1)

\* Terrain.save_terrain: [raised, fs].  open(..., mode="w") raises IOError
\* on a directory.
SaveTerrain(t, fs, path, fname) ==
    IF ~IsDir(path) \/ fs[<<fname, ".terr">>].kind = "dir"
    THEN [raised |-> "IOError", fs |-> fs]
    ELSE [raised |-> "none",
          fs |-> [fs EXCEPT ![<<fname, ".terr">>] =
                     [kind |-> "file",
                      lines |-> << <<t.width, t.length>> >> \o HeightLines(t)]]]

\* VoronoiTerrain.save_terrain: [raised, fs].  Each seed's line holds the
\* seed and the feature points get_feature_points returns for it.
VoronoiSaveTerrain(t, pts, feats, fs, path, fname) ==
    IF ~IsDir(path) \/ fs[<<fname, ".vterr">>].kind = "dir"
    THEN [raised |-> "IOError", fs |-> fs]
    ELSE [raised |-> "none",
          fs |-> [fs EXCEPT ![<<fname, ".vterr">>] =
                     [kind |-> "file",
                      lines |-> << <<t.width, t.length, Len(pts)>> >>
                                \o HeightLines(t)
                                \o [k \in 1..Len(pts) |->
                                      <<pts[k][1], pts[k][2]>> \o
                                      FlattenPoints(GetFeaturePoints(pts, feats,
                                                        pts[k][1], pts[k][2]).feats, 1)]]]]

\* Terrain.load_terrain and VoronoiTerrain.load_terrain: [raised, loaded].
\* The call raises IOError unless path + fname + extension is a directory,
\* and then open() of that directory raises IOError; the statements that
\* read and parse the file are never reached.
LoadTerrain(fs, path, fname, extension) ==
    IF ~IsDirEntry(fs, path, fname, extension)
    THEN [raised |-> "IOError", loaded |-> <<>>]
    ELSE [raised |-> "IOError", loaded |-> <<>>]

\* ------------------------------------------------------------------ state

VARIABLES
    terrains,        \* the Terrain part of `self` and a second Terrain `other`
    points,          \* self._points
    region_map,      \* self._region_map, rows of 0-based seed indices
    point_regions,   \* self._point_regions
    feature_points,  \* self._feature_points
    files,           \* the entries of the directory "dir/", by <<fname, extension>>
    err,             \* the exception the last call raised, or "none"
    last,            \* the last call: its name, arguments, prior state, result
    steps            \* the number of calls made

vars == <<terrains, points, region_map, point_regions, feature_points,
          files, err, last, steps>>

voronoi == <<points, region_map, point_regions, feature_points>>

Names == {"self", "other"}

\* The state a call starts from, kept with the call.
Snapshot ==
    [terrains |-> terrains, points |-> points, region_map |-> region_map,
     point_regions |-> point_regions, feature_points |-> feature_points]

Call(op, arg, ret) == [op |-> op, arg |-> arg, pre |-> Snapshot, ret |-> ret]

\* VoronoiTerrain.__init__(Width, Length, pts), and Terrain.__init__ for
\* `other` with the dimensions (ow, ol).
Constructed(pts, ow, ol) ==
    LET n == InitRegions(pts, [j \in 1..Length |-> [i \in 1..Width |-> 0]],
                         Width, Length)
    IN  /\ terrains = [self |-> NewTerrain(Width, Length), other |-> NewTerrain(ow, ol)]
        /\ points = pts
        /\ region_map = n.region_map
        /\ point_regions = n.point_regions
        /\ feature_points = n.feature_points
        /\ files = InitialFiles
        /\ err = "none"
        /\ last = [op |-> "init", arg |-> <<>>, pre |-> <<>>, ret |-> <<>>]
        /\ steps = 0

\* ---------------------------------------------------------------- actions

\* terrains[name][x, y] = v
SetItemCall(name, x, y, v) ==
    LET r == SetItem(terrains[name], x, y, Rat(v, 1)) IN
    /\ steps < MaxSteps
    /\ terrains' = [terrains EXCEPT ![name] = r.t]
    /\ err' = r.raised
    /\ last' = Call("set", <<name, x, y, v>>, <<>>)
    /\ steps' = steps + 1
    /\ UNCHANGED files
    /\ UNCHANGED voronoi

\* terrains[name][x, y]
GetItemCall(name, x, y) ==
    /\ steps < MaxSteps
    /\ err' = "none"
    /\ last' = Call("get", <<name, x, y>>, GetItem(terrains[name], x, y))
    /\ steps' = steps + 1
    /\ UNCHANGED files
    /\ UNCHANGED <<terrains, voronoi>>

\* other = terrains[a] + terrains[b]
AddCall(a, b) ==
    LET r == Add(terrains[a], terrains[b]) IN
    /\ steps < MaxSteps
    /\ terrains' = IF r.raised = "none" THEN [terrains EXCEPT !.other = r.t]
                   ELSE terrains
    /\ err' = r.raised
    /\ last' = Call("add", <<a, b>>, <<>>)
    /\ steps' = steps + 1
    /\ UNCHANGED files
    /\ UNCHANGED voronoi

\* other = terrains[a] - terrains[b]
SubCall(a, b) ==
    LET r == Sub(terrains[a], terrains[b]) IN
    /\ steps < MaxSteps
    /\ terrains' = IF r.raised = "none" THEN [terrains EXCEPT !.other = r.t]
                   ELSE terrains
    /\ err' = r.raised
    /\ last' = Call("sub", <<a, b>>, <<>>)
    /\ steps' = steps + 1
    /\ UNCHANGED files
    /\ UNCHANGED voronoi

\* other = terrains[a] * (fn / fd)
MulCall(a, fn, fd) ==
    LET r == Mul(terrains[a], Rat(fn, fd)) IN
    /\ steps < MaxSteps
    /\ terrains' = IF r.raised = "none" THEN [terrains EXCEPT !.other = r.t]
                   ELSE terrains
    /\ err' = r.raised
    /\ last' = Call("mul", <<a, fn, fd>>, <<>>)
    /\ steps' = steps + 1
    /\ UNCHANGED files
    /\ UNCHANGED voronoi

\* terrains[name].thermal_erode(iterations, talus)
ThermalErodeCall(name, iterations, talus) ==
    LET e == ThermalErode(terrains[name], iterations, talus) IN
    /\ steps < MaxSteps
    /\ terrains' = [terrains EXCEPT ![name] = e.t]
    /\ err' = e.raised
    /\ last' = Call("thermal_erode", <<name, iterations, talus>>,
                    [visited |-> e.visited, transfers |-> e.transfers,
                     received |-> e.received])
    /\ steps' = steps + 1
    /\ UNCHANGED files
    /\ UNCHANGED voronoi

\* self.add_point(x, y)
AddPointCall(x, y) ==
    LET n == InitRegions(Append(points, <<x, y>>), region_map, Width, Length) IN
    /\ steps < MaxSteps
    /\ points' = Append(points, <<x, y>>)
    /\ region_map' = n.region_map
    /\ point_regions' = n.point_regions
    /\ feature_points' = n.feature_points
    /\ err' = "none"
    /\ last' = Call("add_point", <<x, y>>, <<>>)
    /\ steps' = steps + 1
    /\ UNCHANGED files
    /\ UNCHANGED terrains

\* self.lloyd_relax(iters)
LloydRelaxCall(iters) ==
    LET v == LloydRelax([raised |-> "none", points |-> points,
                         region_map |-> region_map,
                         point_regions |-> point_regions,
                         feature_points |-> feature_points],
                        iters, Width, Length)
    IN
    /\ steps < MaxSteps
    /\ points' = v.points
    /\ region_map' = v.region_map
    /\ point_regions' = v.point_regions
    /\ feature_points' = v.feature_points
    /\ err' = v.raised
    /\ last' = Call("lloyd_relax", <<iters>>, <<>>)
    /\ steps' = steps + 1
    /\ UNCHANGED files
    /\ UNCHANGED terrains

\* self.get_region_edge(region_x, region_y)
GetRegionEdgeCall(region_x, region_y) ==
    LET r == GetRegionEdge(points, point_regions, region_map,
                           region_x, region_y, Width, Length)
    IN
    /\ steps < MaxSteps
    /\ err' = r.raised
    /\ last' = Call("get_region_edge", <<region_x, region_y>>, r.cells)
    /\ steps' = steps + 1
    /\ UNCHANGED files
    /\ UNCHANGED <<terrains, voronoi>>

\* self.get_region_corners(region_x, region_y)
GetRegionCornersCall(region_x, region_y) ==
    LET r == GetRegionCorners(points, point_regions, region_map,
                              region_x, region_y, Width, Length)
    IN
    /\ steps < MaxSteps
    /\ err' = r.raised
    /\ last' = Call("get_region_corners", <<region_x, region_y>>, r.cells)
    /\ steps' = steps + 1
    /\ UNCHANGED files
    /\ UNCHANGED <<terrains, voronoi>>

\* self.add_feature_point(region_x, region_y, x, y)
AddFeaturePointCall(region_x, region_y, x, y) ==
    LET r == AddFeaturePoint(points, point_regions, feature_points,
                             region_x, region_y, x, y)
    IN
    /\ steps < MaxSteps
    /\ feature_points' = r.feature_points
    /\ err' = r.raised
    /\ last' = Call("add_feature_point", <<region_x, region_y, x, y>>, <<>>)
    /\ steps' = steps + 1
    /\ UNCHANGED files
    /\ UNCHANGED <<terrains, points, region_map, point_regions>>

\* self.set_region_height(point_x, point_y, height)
SetRegionHeightCall(point_x, point_y, height) ==
    LET r == SetRegionHeight(terrains.self, points, point_regions,
                             point_x, point_y, height)
    IN
    /\ steps < MaxSteps
    /\ terrains' = [terrains EXCEPT !.self = r.t]
    /\ err' = r.raised
    /\ last' = Call("set_region_height", <<point_x, point_y, height>>, <<>>)
    /\ steps' = steps + 1
    /\ UNCHANGED files
    /\ UNCHANGED voronoi

\* self.add_feature_point_factors(region_x, region_y, coeffs)
AddFeaturePointFactorsCall(region_x, region_y, coeffs) ==
    LET r == AddFeaturePointFactors(terrains.self, points, point_regions,
                                    region_map, feature_points,
                                    region_x, region_y, coeffs)
    IN
    /\ steps < MaxSteps
    /\ terrains' = [terrains EXCEPT !.self = r.t]
    /\ err' = r.raised
    /\ last' = Call("add_feature_point_factors", <<region_x, region_y, coeffs>>, <<>>)
    /\ steps' = steps + 1
    /\ UNCHANGED files
    /\ UNCHANGED voronoi

\* other.save_terrain(path, fname)
SaveTerrainCall(path, fname) ==
    LET r == SaveTerrain(terrains.other, files, path, fname) IN
    /\ steps < MaxSteps
    /\ files' = r.fs
    /\ err' = r.raised
    /\ last' = Call("save_terrain", <<path, fname, ".terr">>, <<>>)
    /\ steps' = steps + 1
    /\ UNCHANGED <<terrains, voronoi>>

\* self.save_terrain(path, fname)
VoronoiSaveTerrainCall(path, fname) ==
    LET r == VoronoiSaveTerrain(terrains.self, points, feature_points, files,
                                path, fname)
    IN
    /\ steps < MaxSteps
    /\ files' = r.fs
    /\ err' = r.raised
    /\ last' = Call("save_terrain", <<path, fname, ".vterr">>, <<>>)
    /\ steps' = steps + 1
    /\ UNCHANGED <<terrains, voronoi>>

\* Terrain.load_terrain(path, fname) for ".terr" and
\* VoronoiTerrain.load_terrain(path, fname) for ".vterr"
LoadTerrainCall(path, fname, extension) ==
    LET r == LoadTerrain(files, path, fname, extension) IN
    /\ steps < MaxSteps
    /\ err' = r.raised
    /\ last' = Call("load_terrain", <<path, fname, extension>>, r.loaded)
    /\ steps' = steps + 1
    /\ UNCHANGED <<terrains, voronoi, files>>

\* ----------------------------------------------------------------- inputs

\* The cells of `self`.
Cells == (0..(Width - 1)) \X (0..(Length - 1))

\* Coordinates for the addressing specification: the first and the last
\* column and row, and those CoordSlack before and behind them.
XCoords == {-CoordSlack, 0, Width - 1, Width - 1 + CoordSlack}
YCoords == {-CoordSlack, 0, Length - 1, Length - 1 + CoordSlack}

\* Values passed to __setitem__: below 0 after rounding, rounded up to 0,
\* rounded down to 0.25, 1, above 1 after rounding.
SetValues == {-(Milli \div 2) - 1, -(Milli \div 2) + 1, Unit \div 4 + Milli \div 2 - 1,
              Unit, Unit + Milli \div 2}

\* talus values: zero and 0.5, and a negative one.
TalusValues == {0, Unit \div 2}
NegativeTalus == -(Unit \div 2)

\* Values set through out-of-range coordinates: 0.25 after rounding, and
\* above 1 after rounding.
WrapValues == {Unit \div 4 + Milli \div 2 - 1, Unit + Milli \div 2}

\* Scalars for __mul__ as fractions: 1/3, 1/2, 2, -1.
Factors == {<<1, 3>>, <<1, 2>>, <<2, 1>>, <<-1, 1>>}

\* ------------------------------------------------ Terrain specification

\* `other` is built with the dimensions of `self` or with them swapped.
InitTerrain ==
    \E d \in {<<Width, Length>>, <<Length, Width>>} :
        Constructed(<< <<0, 0>> >>, d[1], d[2])

NextTerrain ==
    \/ \E c \in Cells, v \in SetValues : SetItemCall("self", c[1], c[2], v)
    \/ \E a \in Names, b \in Names : AddCall(a, b)
    \/ \E a \in Names, b \in Names : SubCall(a, b)
    \/ \E a \in Names, f \in Factors : MulCall(a, f[1], f[2])
    \/ \E iterations \in {0, 1, MaxIters}, talus \in TalusValues :
           ThermalErodeCall("self", iterations, talus)

SpecTerrain == InitTerrain /\ [][NextTerrain]_vars

\* --------------------------------------------- addressing specification

NextWrap ==
    \/ \E name \in Names, x \in XCoords, y \in YCoords, v \in WrapValues :
           SetItemCall(name, x, y, v)
    \/ \E name \in Names, x \in XCoords, y \in YCoords : GetItemCall(name, x, y)

SpecWrap == InitTerrain /\ [][NextWrap]_vars

\* ------------------------------------------------ Voronoi specification

\* Largest number of seeds passed to the constructor.
MaxInitPoints == 2

\* Seed coordinates: cells of the grid, and two seeds to the right of it,
\* farther from cell (0, 0) than the grid's diagonal.
GridSeeds == {<<0, 0>>, <<0, 1>>, <<1, 0>>}
FarSeeds == {<<Width + Length, 0>>, <<Width + Length + 1, 0>>}
SeedCoords == GridSeeds \cup FarSeeds

\* The lists of at most n seeds.
SeedLists(n) == UNION {[1..m -> SeedCoords] : m \in 0..n}

InitVoronoi == \E pts \in SeedLists(MaxInitPoints) : Constructed(pts, Width, Length)

\* The seeds of the partition and one coordinate that is no seed.
QuerySeeds == {points[i] : i \in 1..Len(points)} \cup {<<-1, -1>>}

NextVoronoi ==
    \/ \E p \in SeedCoords : AddPointCall(p[1], p[2])
    \/ \E iters \in {0, 1, MaxIters} : LloydRelaxCall(iters)
    \/ \E p \in QuerySeeds : GetRegionEdgeCall(p[1], p[2])
    \/ \E p \in QuerySeeds : GetRegionCornersCall(p[1], p[2])

SpecVoronoi == InitVoronoi /\ [][NextVoronoi]_vars

\* --------------------------------------------------- full specification

\* Seed lists of the partition of `self`: two regions, and a single one.
PartitionSeeds == {<< <<0, 0>>, <<2, 1>> >>, << <<1, 0>> >>}

\* Coefficients of add_feature_point_factors: 0.5, -0.25 and 2.
CoeffValues == {Unit \div 2, -(Unit \div 4), 2 * Unit}

\* Coefficient lists for regions with up to two feature points.
CoeffLists == UNION {[1..m -> CoeffValues] : m \in 0..2}

\* Region heights of set_region_height: 0.5 after rounding, above 1.
RegionHeights == {Unit \div 2 + 1, Unit + Milli}

\* The cells written by set: two cells in the first row and the last cell
\* of the grid.
SampleCells == {<<0, 0>>, <<1, 0>>, <<Width - 1, Length - 1>>}

Init == \E pts \in PartitionSeeds : Constructed(pts, Width, Length)

Next ==
    \/ \E c \in SampleCells, v \in SetValues : SetItemCall("self", c[1], c[2], v)
    \/ \E a \in Names, b \in Names : AddCall(a, b)
    \/ \E a \in Names, b \in Names : SubCall(a, b)
    \/ \E f \in Factors : MulCall("self", f[1], f[2])
    \/ \E iterations \in {1, MaxIters}, talus \in TalusValues \cup {NegativeTalus} :
           ThermalErodeCall("self", iterations, talus)
    \/ \E p \in QuerySeeds, height \in RegionHeights :
           SetRegionHeightCall(p[1], p[2], height)
    \/ \E p \in QuerySeeds, c \in Cells : AddFeaturePointCall(p[1], p[2], c[1], c[2])
    \/ \E p \in QuerySeeds, coeffs \in CoeffLists :
           AddFeaturePointFactorsCall(p[1], p[2], coeffs)

Spec == Init /\ [][Next]_vars

\* ------------------------------------------------ save/load specification

\* The directory that exists and one that does not.
Paths == {"dir/", "nodir/"}

NextFiles ==
    \/ \E name \in Names, c \in SampleCells, v \in WrapValues :
           SetItemCall(name, c[1], c[2], v)
    \/ \E p \in QuerySeeds, c \in SampleCells :
           AddFeaturePointCall(p[1], p[2], c[1], c[2])
    \/ \E path \in Paths, fname \in FileNames : SaveTerrainCall(path, fname)
    \/ \E path \in Paths, fname \in FileNames : VoronoiSaveTerrainCall(path, fname)
    \/ \E path \in Paths, fname \in FileNames, extension \in Extensions :
           LoadTerrainCall(path, fname, extension)

SpecFiles == Init /\ [][NextFiles]_vars

\* -------------------------------------------- feature point specification

NextFeatures ==
    \/ \E p \in GridSeeds : AddPointCall(p[1], p[2])
    \/ \E iters \in {1, MaxIters} : LloydRelaxCall(iters)
    \/ \E p \in QuerySeeds, c \in Cells : AddFeaturePointCall(p[1], p[2], c[1], c[2])

SpecFeatures == Init /\ [][NextFeatures]_vars

\* ------------------------------------------------------ claims: Terrain

\* Range of the multiples k, j of width and length tried in the wrap law.
WrapRange == 2

RECURSIVE SumRows(_, _)
SumRows(hm, from) ==
    IF from > Len(hm) THEN 0 ELSE SumSeq(hm[from], 1) + SumRows(hm, from + 1)

\* The sum of all heights of a terrain.
TotalHeight(t) == SumRows(t.height_map, 1)

\* The in-range coordinate that differs from c by a multiple of n.
InRange(c, n) == CHOOSE r \in 0..(n - 1) : \E k \in (-Abs(c) - 1)..(Abs(c) + 1) : c = r + k * n

\* C1.  Every stored height of every grid lies in [0, 1] inclusive and is a
\* multiple of 0.001, in every state reached by set, add, subtract, scale,
\* set_region_height, thermal_erode and add_feature_point_factors, whether
\* the call returned or raised.
C1_HeightsInRangeRounded ==
    \A name \in Names :
        \A j \in 1..terrains[name].length, i \in 1..terrains[name].width :
            LET h == terrains[name].height_map[j][i]
            IN  h % Milli = 0 /\ 0 <= h /\ h <= Unit

\* C1 witness: add_feature_point_factors returned and left a cell of `self`
\* at a new height that is neither 0 nor 1.
C1_Witness ==
    /\ last.op = "add_feature_point_factors" /\ err = "none"
    /\ \E j \in 1..Length, i \in 1..Width :
          /\ terrains.self.height_map[j][i] # last.pre.terrains.self.height_map[j][i]
          /\ terrains.self.height_map[j][i] \notin {0, Unit}

C5_ToroidalAddressing ==
    /\ \A name \in Names :
          LET t == terrains[name] IN
          \A x \in 0..(t.width - 1), y \in 0..(t.length - 1) :
             \A k \in (-WrapRange)..WrapRange, j \in (-WrapRange)..WrapRange :
                GetItem(t, x + k * t.width, y + j * t.length) = t.height_map[y + 1][x + 1]
    /\ last.op = "get" =>
          LET t == terrains[last.arg[1]] IN
          last.ret = t.height_map[InRange(last.arg[3], t.length) + 1]
                                 [InRange(last.arg[2], t.width) + 1]
    /\ (last.op = "set" /\ err = "none") =>
          LET old == last.pre.terrains[last.arg[1]]
              new == terrains[last.arg[1]]
              cx == InRange(last.arg[2], old.width)
              cy == InRange(last.arg[3], old.length)
          IN  /\ \A name \in Names \ {last.arg[1]} : terrains[name] = last.pre.terrains[name]
              /\ new.width = old.width /\ new.length = old.length
              /\ \A j \in 1..old.length, i \in 1..old.width :
                    IF j = cy + 1 /\ i = cx + 1
                    THEN new.height_map[j][i] = GetItem(new, last.arg[2], last.arg[3])
                         /\ Abs(new.height_map[j][i] - last.arg[4]) * 2 <= Milli
                    ELSE new.height_map[j][i] = old.height_map[j][i]

\* C5 witness: a set at a coordinate left of and below the grid stored a
\* new height in the wrapped cell.
C5_Witness ==
    /\ last.op = "set" /\ err = "none"
    /\ last.arg[2] < 0 /\ last.arg[3] < 0
    /\ terrains[last.arg[1]] # last.pre.terrains[last.arg[1]]
    /\ GetItem(terrains[last.arg[1]], last.arg[2], last.arg[3]) = Unit \div 4

\* The four von Neumann neighbours of (x, y) with toroidal wrap-around.
ToroidalNeighbours(t, x, y) ==
    {<<(x + 1) % t.width, y>>, <<(x - 1) % t.width, y>>,
     <<x, (y + 1) % t.length>>, <<x, (y - 1) % t.length>>}

\* C8 as stated.  In a thermal_erode pass every cell is compared with all
\* four of its von Neumann neighbours taken with toroidal wrap-around.
C8_ErodeUsesWrappedNeighbours ==
    (last.op = "thermal_erode" /\ err = "none" /\ last.arg[2] >= 1)
    => LET t == terrains[last.arg[1]] IN
       \A x \in 0..(t.width - 1), y \in 0..(t.length - 1) :
          \A n \in ToroidalNeighbours(t, x, y) :
             <<x, y, n[1], n[2]>> \in last.ret.visited

\* A grid that is 0 everywhere but for one cell of height 1.
SinglePeak(t, x, y) ==
    \A j \in 1..t.length, i \in 1..t.width :
        t.height_map[j][i] = IF j = y + 1 /\ i = x + 1 THEN Unit ELSE 0

\* C9.  thermal_erode with talus >= 0 completes and conserves the total
\* height up to 0.001 per transfer made; from a single peak of 1 with talus
\* 0.5, after one pass the peak is lower, height was transferred, and every
\* cell that received a transfer is higher.
C9_ErodeConservesHeight ==
    (last.op = "thermal_erode" /\ last.arg[3] >= 0)
    => LET old == last.pre.terrains[last.arg[1]]
           new == terrains[last.arg[1]]
       IN  /\ err = "none"
           /\ Abs(TotalHeight(new) - TotalHeight(old)) <= Milli * last.ret.transfers
           /\ \A x \in 0..(old.width - 1), y \in 0..(old.length - 1) :
                 (SinglePeak(old, x, y) /\ last.arg[3] = Unit \div 2 /\ last.arg[2] = 1
                    /\ old.width * old.length > 1)
                 => /\ GetItem(new, x, y) < Unit
                    /\ last.ret.received # {}
                    /\ \A c \in last.ret.received :
                          GetItem(new, c[1], c[2]) > GetItem(old, c[1], c[2])

\* C9 witness: one pass with talus 0.5 over a single peak of 1 made
\* transfers.
C9_Witness ==
    /\ last.op = "thermal_erode" /\ err = "none"
    /\ last.arg[2] = 1 /\ last.arg[3] = Unit \div 2
    /\ \E x \in 0..(Width - 1), y \in 0..(Length - 1) :
          SinglePeak(last.pre.terrains[last.arg[1]], x, y)
    /\ last.ret.transfers >= 2


\* ------------------------------------------------------ claims: Voronoi

DistSquared(p, x, y) == (p[1] - x) * (p[1] - x) + (p[2] - y) * (p[2] - y)

\* The smallest 1-based index of a seed at minimal squared distance to (x, y).
NearestSeed(pts, x, y) ==
    CHOOSE i \in 1..Len(pts) :
        /\ \A j \in 1..Len(pts) : DistSquared(pts[i], x, y) <= DistSquared(pts[j], x, y)
        /\ \A j \in 1..(i - 1) : DistSquared(pts[j], x, y) > DistSquared(pts[i], x, y)

\* The state is that left by a recomputation of the partition.
Recomputed ==
    /\ err = "none"
    /\ \/ last.op \in {"init", "add_point"}
       \/ last.op = "lloyd_relax" /\ last.arg[1] >= 1

\* C2 as stated.  After every recomputation of the partition with a
\* non-empty seed list, the region index of every cell is the smallest index
\* of a seed at minimal squared distance to the cell.
C2_RegionIsNearestSeed ==
    (Recomputed /\ Len(points) > 0)
    => \A c \in Cells :
          GetClosestPoint(region_map, c[1], c[2]) + 1 = NearestSeed(points, c[1], c[2])

\* How often the cell c occurs in the list seq.
Occurrences(seq, c) == Cardinality({k \in 1..Len(seq) : seq[k] = c})

\* The member lists are the exact inverse of the region map.
MembersInverseOfMap ==
    /\ Len(point_regions) = Len(points)
    /\ \A i \in 1..Len(point_regions) :
          \A k \in 1..Len(point_regions[i]) : point_regions[i][k] \in Cells
    /\ \A c \in Cells :
          /\ \E i \in 1..Len(point_regions) : Occurrences(point_regions[i], c) = 1
          /\ \A i \in 1..Len(point_regions) :
                Occurrences(point_regions[i], c) =
                   IF GetClosestPoint(region_map, c[1], c[2]) = i - 1 THEN 1 ELSE 0

\* C3 as amended.  Whenever the seed list is not empty, every cell is in
\* exactly one seed's member list, exactly once, and it is in the list of
\* seed i iff its recorded region index is i.
C3_MembersInverseOfMapWithSeeds == Len(points) > 0 => MembersInverseOfMap

\* C3 witness: after add_point there are two seeds with members each.
C3_Witness ==
    /\ last.op = "add_point" /\ Len(points) = 2
    /\ \A i \in 1..2 : Len(point_regions[i]) > 0

\* C3 as stated.  In every state reached by construction, add_point and
\* lloyd_relax the member lists are the exact inverse of the region map.
C3_MembersInverseOfMapAlways == MembersInverseOfMap

\* The cells of seed (region_x, region_y)'s region with a Moore neighbour
\* (wrapped) in a different region.
TrueEdge(region_x, region_y) ==
    LET idx == IndexOf(points, <<region_x, region_y>>) IN
    {c \in Cells :
        /\ GetClosestPoint(region_map, c[1], c[2]) = idx
        /\ \E dx \in {-1, 0, 1}, dy \in {-1, 0, 1} :
              /\ <<dx, dy>> # <<0, 0>>
              /\ GetClosestPoint(region_map, (c[1] + dx) % Width,
                                 (c[2] + dy) % Length) # idx}

\* The elements of a list.
Range(seq) == {seq[k] : k \in 1..Len(seq)}

\* C6 as stated.  get_region_edge returns exactly the member cells with a
\* wrapped Moore neighbour in a different region.
C6_EdgeIsRegionBoundary ==
    (last.op = "get_region_edge" /\ err = "none")
    => Range(last.ret) = TrueEdge(last.arg[1], last.arg[2])

\* The region indices among (x, y) and its 8 wrapped Moore neighbours.
RegionsAround(x, y) ==
    {GetClosestPoint(region_map, (x + dx) % Width, (y + dy) % Length) :
        dx \in {-1, 0, 1}, dy \in {-1, 0, 1}}

\* C7 as stated.  get_region_corners returns exactly the edge cells where
\* the cell and its 8 wrapped Moore neighbours lie in 3 or more regions.
C7_CornersCountOwnRegion ==
    (last.op = "get_region_corners" /\ err = "none")
    => Range(last.ret) =
          {c \in TrueEdge(last.arg[1], last.arg[2]) :
              Cardinality(RegionsAround(c[1], c[2])) >= 3}

\* C10 as stated.  lloyd_relax on a partition with an empty region raises a
\* dedicated error, never a division by zero.
C10_EmptyRegionDedicatedError ==
    (last.op = "lloyd_relax" /\ last.arg[1] >= 1
        /\ \E i \in 1..Len(last.pre.point_regions) : last.pre.point_regions[i] = <<>>)
    => err \notin {"none", "ZeroDivisionError"}


\* No two entries of the seed list pts have the same coordinate.
PairwiseDistinct(pts) ==
    \A i \in 1..Len(pts), j \in 1..Len(pts) : i # j => pts[i] # pts[j]

\* C11 as stated.  add_point and lloyd_relax keep the seeds pairwise
\* distinct: called on a partition with pairwise distinct seeds they leave
\* one with pairwise distinct seeds.
C11_SeedsStayDistinct ==
    (last.op \in {"add_point", "lloyd_relax"} /\ PairwiseDistinct(last.pre.points))
    => PairwiseDistinct(points)

\* C12 as stated.  Loading a file that holds what save_terrain writes for
\* the grid `other` (plain format) or for the Voronoi terrain `self`
\* (Voronoi format) succeeds and returns an object with the same dimensions
\* and heights and, for the Voronoi format, the same seed list and feature
\* points.
C12_SaveLoadRoundTrip ==
    /\ (last.op = "load_terrain" /\ last.arg[3] = ".terr"
          /\ files[<<last.arg[2], ".terr">>].kind = "file"
          /\ files = SaveTerrain(terrains.other, files, last.arg[1], last.arg[2]).fs)
       => (err = "none" /\ last.ret = terrains.other)
    /\ (last.op = "load_terrain" /\ last.arg[3] = ".vterr"
          /\ files[<<last.arg[2], ".vterr">>].kind = "file"
          /\ files = VoronoiSaveTerrain(terrains.self, points, feature_points, files,
                                        last.arg[1], last.arg[2]).fs)
       => (err = "none"
           /\ last.ret = [terrain |-> terrains.self, points |-> points,
                          feature_points |-> feature_points])

\* C13.  add_feature_point for a seed of the partition: when (x, y) is not
\* in the seed's member list it raises OutOfRegionError and changes nothing;
\* when it is, the call succeeds and appends (x, y) to that seed's feature
\* points.  Other seeds' feature points, the partition and all heights stay
\* as they were.
C13_AddFeaturePointChecksRegion ==
    (last.op = "add_feature_point"
        /\ IndexOf(last.pre.points, <<last.arg[1], last.arg[2]>>) >= 0)
    => LET idx == IndexOf(last.pre.points, <<last.arg[1], last.arg[2]>>) + 1
           cell == <<last.arg[3], last.arg[4]>>
       IN  /\ points = last.pre.points
           /\ region_map = last.pre.region_map
           /\ point_regions = last.pre.point_regions
           /\ terrains = last.pre.terrains
           /\ IF InSeq(cell, last.pre.point_regions[idx])
              THEN /\ err = "none"
                   /\ feature_points =
                         [last.pre.feature_points EXCEPT ![idx] = Append(@, cell)]
              ELSE /\ err = "OutOfRegionError"
                   /\ feature_points = last.pre.feature_points

\* C13 witness: with several seeds, a feature point was added to the list of
\* a seed that is not the first.
C13_Witness ==
    /\ last.op = "add_feature_point" /\ err = "none"
    /\ IndexOf(points, <<last.arg[1], last.arg[2]>>) >= 1
    /\ feature_points # last.pre.feature_points

\* C15.  Every feature point recorded for a seed is in that seed's member
\* list, and there is one feature point list per seed.
C15_FeaturePointsInRegion ==
    /\ Len(feature_points) = Len(points)
    /\ Len(point_regions) = Len(points)
    /\ \A i \in 1..Len(feature_points) :
          \A k \in 1..Len(feature_points[i]) :
             InSeq(feature_points[i][k], point_regions[i])

\* C15 witness: add_point recomputed a partition that held a feature point,
\* and the cell of that feature point is now in another seed's region.
C15_Witness ==
    /\ last.op = "add_point"
    /\ \E i \in 1..Len(last.pre.feature_points) :
          \E k \in 1..Len(last.pre.feature_points[i]) :
             ~InSeq(last.pre.feature_points[i][k], point_regions[i])

\* ------------------------------------------------------ claims: erosion

\* The transfers out of (x, y) as computed from the grid t0 met when the
\* cell's turn came: every neighbour whose difference in t0 exceeds talus is
\* given (diff_max - talus) * (difference / diff_total) with that
\* difference, and (x, y) gives each amount up; t is the grid so far, from
\* neighbour k on.  Heights are stored as __setitem__ stores them.
RECURSIVE TransfersByInitialDiffs(_, _, _, _, _, _)
TransfersByInitialDiffs(t, t0, x, y, k, talus) ==
    LET nbrs == VonNeumannNeighbours(t0, x, y) IN
    IF k > Len(nbrs) THEN t
    ELSE
      LET nx == nbrs[k][1]
          ny == nbrs[k][2]
          difference == GetItem(t0, x, y) - GetItem(t0, nx, ny)
          diff_total == DiffTotal(t0, x, y, talus)
          num == (DiffMax(t0, x, y, talus) - talus) * difference
      IN
      IF ~(difference > talus)
      THEN TransfersByInitialDiffs(t, t0, x, y, k + 1, talus)
      ELSE
        LET out == SetItem(t, x, y,
                           Rat(GetItem(t, x, y) * diff_total - num, diff_total)).t
            in == SetItem(out, nx, ny,
                          Rat(GetItem(out, nx, ny) * diff_total + num, diff_total)).t
        IN  TransfersByInitialDiffs(in, t0, x, y, k + 1, talus)

\* One pass in which every cell transfers by its initial differences.
RECURSIVE PassByInitialDiffs(_, _, _)
PassByInitialDiffs(t, k, talus) ==
    LET cells == CellOrder(t.width, t.length) IN
    IF k > Len(cells) THEN t
    ELSE PassByInitialDiffs(
             TransfersByInitialDiffs(t, t, cells[k][1], cells[k][2], 1, talus),
             k + 1, talus)

\* C14.  In one pass of thermal_erode with talus >= 0, every cell gives each
\* neighbour whose difference exceeded talus when the cell's turn came the
\* amount (diff_max - talus) * (difference / diff_total) computed with that
\* difference, whatever was transferred to earlier neighbours.
C14_TransfersUseInitialDiffs ==
    (last.op = "thermal_erode" /\ last.arg[2] = 1 /\ last.arg[3] >= 0)
    => terrains[last.arg[1]] =
          PassByInitialDiffs(last.pre.terrains[last.arg[1]], 1, last.arg[3])

\* C16.  thermal_erode with talus >= 0 raises neither HeightOutOfBoundsError
\* nor ZeroDivisionError, for any number of passes.
C16_ErodeNeverRaises ==
    (last.op = "thermal_erode" /\ last.arg[3] >= 0)
    => err \notin {"HeightOutOfBoundsError", "ZeroDivisionError"}

\* C16 witness: MaxIters passes with talus 0 over a grid that holds both a
\* height of 1 and a height of 0 made transfers.
C16_Witness ==
    /\ last.op = "thermal_erode" /\ last.arg[2] = MaxIters /\ last.arg[3] = 0
    /\ LET old == last.pre.terrains[last.arg[1]] IN
       /\ \E j \in 1..old.length, i \in 1..old.width : old.height_map[j][i] = Unit
       /\ \E j \in 1..old.length, i \in 1..old.width : old.height_map[j][i] = 0
    /\ last.ret.transfers >= 1
    /\ err = "none"

====
